---- MODULE Spec2Model ----
(***************************************************************************)
(* Model of the uv_tool state module (src/_states/uv_tool.py) and of the   *)
(* parts of the uv execution module (src/_modules/uv.py) it calls.         *)
(*                                                                         *)
(* Strings whose content the code inspects (version strings, version       *)
(* specifiers, requirement strings) are sequences of one-character         *)
(* strings, so that parsing and string ordering are computed, not assumed. *)
(* Python's None is the empty sequence for those strings (the code itself  *)
(* folds '' and None together: uv.py:346, uv.py:520) and the string "None" *)
(* for the other optional parameters.  A Python dict that is tested for    *)
(* truthiness (the result of uv.tool_list) is a set of at most one record. *)
(***************************************************************************)
EXTENDS Integers, Sequences, FiniteSets, TLC

\* ---------------------------------------------------------------- bounds
\* Number of state-function invocations in one behaviour.
MaxCalls == 2

\* ------------------------------------------------------------ primitives
None == <<>>
PyNone == "None"

B(b) == IF b THEN "True" ELSE "False"

Digits == {"0", "1", "2", "3", "4", "5", "6", "7", "8", "9"}

\* ord(c) for the characters that occur in version strings and specifiers.
CharCode(c) ==
  CASE c = "." -> 46
    [] c = "0" -> 48 [] c = "1" -> 49 [] c = "2" -> 50 [] c = "3" -> 51
    [] c = "4" -> 52 [] c = "5" -> 53 [] c = "6" -> 54 [] c = "7" -> 55
    [] c = "8" -> 56 [] c = "9" -> 57
    [] c = "<" -> 60 [] c = "=" -> 61 [] c = ">" -> 62
    [] c = "a" -> 97
    [] OTHER -> 127

\* Python's str.__lt__: lexicographic on code points, a proper prefix is less.
StrLess(s, t) ==
  \E i \in 1..Len(t) :
     /\ \A j \in 1..(i - 1) : j <= Len(s) /\ s[j] = t[j]
     /\ (i > Len(s) \/ (i <= Len(s) /\ CharCode(s[i]) < CharCode(t[i])))

\* next(iter(sorted(S, reverse=True))): the greatest string of S.
SortedReverseFirst(S) == CHOOSE s \in S : \A t \in S : t = s \/ StrLess(t, s)

\* The leading run of digits of a version string.
RECURSIVE DigitPrefix(_)
DigitPrefix(s) ==
  IF s = <<>> \/ Head(s) \notin Digits THEN <<>>
  ELSE <<Head(s)>> \o DigitPrefix(Tail(s))

RECURSIVE DigitsValue(_)
DigitsValue(ds) ==
  IF ds = <<>> THEN 0
  ELSE 10 * DigitsValue(SubSeq(ds, 1, Len(ds) - 1)) + (CharCode(ds[Len(ds)]) - 48)

\* packaging.version.Version(s): the release number and the pre-release
\* marker ("a" suffix); a final release sorts after its pre-releases.
Version(s) ==
  [release |-> DigitsValue(DigitPrefix(s)),
   pre     |-> Len(DigitPrefix(s)) < Len(s)]

\* The ordering of parsed versions.
KeyLess(x, y) ==
  \/ x.release < y.release
  \/ x.release = y.release /\ x.pre /\ ~y.pre

\* Version(a) < Version(b)
VersionLess(a, b) == KeyLess(Version(a), Version(b))

VersionEq(a, b) == Version(a) = Version(b)

\* not is_prerelease and not is_devrelease and not is_postrelease
IsStableRelease(s) == ~Version(s).pre

\* packaging.specifiers.SpecifierSet(spec): operator and version of the
\* single clause.
SpecifierSet(spec) ==
  IF Len(spec) >= 2 /\ spec[2] = "="
  THEN [op |-> <<spec[1], spec[2]>>, version |-> SubSeq(spec, 3, Len(spec))]
  ELSE [op |-> <<spec[1]>>, version |-> SubSeq(spec, 2, Len(spec))]

\* Version(v) in ss, for a parsed specifier ss.
SpecContains(v, ss) ==
  CASE ss.op = <<"<">>      -> VersionLess(v, ss.version) /\ ~Version(v).pre
    [] ss.op = <<">", "=">> -> ~VersionLess(v, ss.version)
    [] ss.op = <<"=", "=">> -> VersionEq(v, ss.version)
    [] OTHER                -> FALSE

\* Version(v) in SpecifierSet(spec)
Contains(v, spec) == SpecContains(v, SpecifierSet(spec))

\* ------------------------------------------------------- model universe
V9  == <<"9">>
V10 == <<"1", "0">>
V11 == <<"1", "1">>
LT11 == <<"<", "1", "1">>

ToolName == "copier"
ExtraName == "ext"
Packages == {ToolName, ExtraName}
VersionStrings == {V9, V10, V11}
VersionSpecs == {None, LT11}

\* Interpreter paths; /usr/bin/python3 is a symlink to python3.12.
PySymlink == "/usr/bin/python3"
Py312 == "/usr/bin/python3.12"
Py311 == "/usr/bin/python3.11"
DefaultPython == Py312

\* Path(python).resolve()
Resolve(path) == IF path = PySymlink THEN Py312 ELSE path

\* ------------------------------------------------- the package index
\* Greatest element of a set of version strings under version ordering.
VersionMax(S) == CHOOSE s \in S : \A t \in S : ~VersionLess(s, t)

\* response["dict"]["info"]["version"]: the index reports its newest stable
\* release there (its newest release when there is no stable one).
InfoVersion(releases) ==
  VersionMax(IF \E v \in releases : IsStableRelease(v)
             THEN {v \in releases : IsStableRelease(v)}
             ELSE releases)

\* The generator of get_latest_version: the releases that pass the filter.
Candidates(releases, spec) ==
  {v \in releases : Contains(v, spec) /\ IsStableRelease(v)}

\* A Python call's outcome: exc = "" and a value, or the exception raised.
Ok(v) == [exc |-> "", val |-> v]
Raise(e) == [exc |-> e, val |-> None]

\* Mutant: a fallback version when nothing passed the filter.
NextSorted_fallback(candidates) ==
  IF candidates = {} THEN Ok(<<"0">>) ELSE Ok(SortedReverseFirst(candidates))

\* next(iter(sorted(candidates, reverse=True))) (uv.py:276-290): next()
\* raises StopIteration when nothing passed the filter.
NextSorted(candidates) ==
  IF candidates = {} THEN Raise("StopIteration")
  ELSE Ok(SortedReverseFirst(candidates))

\* uv.get_latest_version(name, spec)
get_latest_version(idx, pkg, spec) ==
  IF spec = None THEN Ok(InfoVersion(idx[pkg]))
  ELSE NextSorted(Candidates(idx[pkg], spec))

\* ------------------------------------------------------- call records
\* One __salt__[...] call of the state module: the function, the positional
\* name and the keyword arguments it was given ("-", NotPassed: not given;
\* extras not given and extras=[] are both the empty list).
NotPassed == <<"-">>
SpecFalse == <<"False">>

NoKw ==
  [system |-> "-", user |-> "-", python |-> "-", spec |-> NotPassed,
   upgrade |-> "-", reinstall |-> "-", refresh |-> "-", force |-> "-",
   extras |-> <<>>]

Call(fn, name, kw) == [fn |-> fn, name |-> name, kw |-> kw]

LookupCall(pkg, spec) ==
  Call("uv.get_latest_version", pkg, [NoKw EXCEPT !.spec = spec])

\* ------------------------------------------------------------ observer
\* uv.tool_list([name], system=, user=): the ObservedState of the tool in
\* the targeted scope, or the empty dict.
tool_list(tools, name) == {t \in tools : t.tool = name}

\* uv.py:343-346: spec=False lifts the constraint, spec=None takes the
\* specifier the tool was installed with.
OutdatedSpec(spec, cur) ==
  IF spec = SpecFalse THEN None
  ELSE IF spec = None THEN cur.install_spec
  ELSE spec

\* uv.py:347-353: (current < latest, current, latest)
OutdatedResult(cur, latest) ==
  IF latest.exc # "" THEN latest
  ELSE Ok([res |-> VersionLess(cur.version, latest.val),
           current |-> cur.version, latest |-> latest.val])

\* uv.tool_is_outdated of a tool that is installed as cur.
OutdatedOf(idx, name, spec, cur) ==
  OutdatedResult(cur, get_latest_version(idx, name, OutdatedSpec(spec, cur)))

\* uv.tool_is_outdated(name, spec=, get_versions=True)
tool_is_outdated(tools, idx, name, spec) ==
  IF tool_list(tools, name) = {} THEN Raise("CommandExecutionError")
  ELSE OutdatedOf(idx, name, spec, CHOOSE t \in tool_list(tools, name) : TRUE)

\* ---------------------------------------------------- Diff computation
\* The changes dict of installed(): every key holds a set with at most one
\* element, the empty set when the key is absent from the dict.
NoChanges ==
  [installed |-> {}, python |-> {}, extras |-> {}, version_spec |-> {},
   version |-> {}, removed |-> {}]

OldNew(old, new) == [old |-> old, new |-> new]

\* Mutant: the declared path is compared unresolved.
PythonChanged_unresolved(curr, python) ==
  python # PyNone /\ curr.python # python

\* l.107: python is not None and
\* curr["python"] != str(Path(python).resolve())
PythonChanged(curr, python) ==
  python # PyNone /\ curr.python # Resolve(python)

\* One iteration of the loop over extras (uv_tool.py:111-143), given the
\* outcome look of the lookup it makes: the entry of extra_misses it writes
\* (none: {}) and the lookup call.
ExtraEntry(curr, extra, upgrade, look) ==
  LET call == <<LookupCall(extra.pkg, extra.spec)>>
      installed_version == curr.pkgs[extra.pkg]
      Missed(old) ==
        IF look.exc # "" THEN [exc |-> look.exc, miss |-> {}, calls |-> call]
        ELSE [exc |-> "", calls |-> call,
              miss |-> {[pkg |-> extra.pkg, old |-> old, new |-> look.val]}]
  IN
  IF extra.pkg \notin DOMAIN curr.pkgs THEN Missed(None)
  ELSE IF extra.spec # None /\ ~Contains(installed_version, extra.spec)
  THEN Missed(installed_version)
  ELSE IF upgrade THEN
    IF look.exc # "" THEN [exc |-> look.exc, miss |-> {}, calls |-> call]
    ELSE [exc |-> "", calls |-> call,
          miss |-> IF VersionLess(installed_version, look.val)
                   THEN {[pkg |-> extra.pkg, old |-> installed_version,
                          new |-> look.val]}
                   ELSE {}]
  ELSE [exc |-> "", miss |-> {}, calls |-> <<>>]

CheckExtra(curr, idx, extra, upgrade) ==
  ExtraEntry(curr, extra, upgrade,
             get_latest_version(idx, extra.pkg, extra.spec))

\* The loop over extras: extra_misses as the set of its entries (a later
\* entry for the same package replaces the earlier one).
RECURSIVE ExtraMisses(_, _, _, _, _, _)
\* The rest of the loop after the iteration one for Head(extras).
ExtraStep(curr, idx, extras, upgrade, acc, calls, one) ==
  IF one.exc # "" THEN
    [exc |-> one.exc, misses |-> acc, calls |-> calls \o one.calls]
  ELSE
    ExtraMisses(curr, idx, Tail(extras), upgrade,
                IF one.miss = {} THEN acc
                ELSE {m \in acc : m.pkg # Head(extras).pkg} \cup one.miss,
                calls \o one.calls)

ExtraMisses(curr, idx, extras, upgrade, acc, calls) ==
  IF extras = <<>> THEN [exc |-> "", misses |-> acc, calls |-> calls]
  ELSE ExtraStep(curr, idx, extras, upgrade, acc, calls,
                 CheckExtra(curr, idx, Head(extras), upgrade))

\* Mutant: a changed interpreter sets the flag as well.
RequiresInstall_python(python_changed, extra_misses, spec_changed, drift) ==
  python_changed \/ extra_misses # {} \/ spec_changed \/ drift

\* requires_install as _check_changes leaves it: set by an extras miss
\* (l.147), a changed version_spec (l.151) and a version outside the
\* unchanged version_spec (l.164); not by a changed interpreter (l.107-108).
RequiresInstall(python_changed, extra_misses, spec_changed, drift) ==
  extra_misses # {} \/ spec_changed \/ drift

\* The keyword arguments of the uv.tool_is_outdated call (l.167-174).
OutdatedCall(d) ==
  Call("uv.tool_is_outdated", d.name,
       [NoKw EXCEPT !.spec = IF d.version_spec # None THEN d.version_spec
                              ELSE SpecFalse,
                    !.system = d.system, !.user = d.user])

\* A lookup of _check_changes raised e after the calls made so far.
CheckFailed(e, calls) ==
  [exc |-> e, changes |-> NoChanges, requires_install |-> FALSE,
   calls |-> calls]

\* l.166-177: with upgrade set and no version entry yet, the version entry
\* uv.tool_is_outdated (outcome: outdated) asks for.
CheckUpgrade(d, c4, requires_install, calls4, outdated) ==
  LET check5 == d.upgrade /\ c4.version = {}
      calls5 == calls4 \o (IF check5 THEN <<OutdatedCall(d)>> ELSE <<>>)
  IN
  IF check5 /\ outdated.exc # "" THEN CheckFailed(outdated.exc, calls5)
  ELSE [exc |-> "",
        changes |-> IF check5 /\ outdated.val.res
                    THEN [c4 EXCEPT !.version =
                            {OldNew(outdated.val.current,
                                    outdated.val.latest)}]
                    ELSE c4,
        requires_install |-> requires_install,
        calls |-> calls5]

\* l.105-164: the python, extras, version_spec and version entries, given
\* the misses of the extras loop (ex), whether the version constraint
\* changed (l.149), whether the version is outside the unchanged constraint
\* (l.156-157) and the outcome look3 of the lookup for the tool itself.
CheckVersion(curr, d, idx, tools, python_changed, ex, spec_changed, drift, look3) ==
  LET c1 == IF python_changed
            THEN [NoChanges EXCEPT
                    !.python = {OldNew(curr.python, d.python)}]
            ELSE NoChanges
      c2 == IF ex.misses # {} THEN [c1 EXCEPT !.extras = {ex.misses}] ELSE c1
      c3 == IF ~spec_changed THEN c2
            ELSE [c2 EXCEPT
                    !.version_spec =
                       {OldNew(curr.install_spec, d.version_spec)},
                    !.version =
                       IF ~VersionEq(curr.version, look3.val)
                       THEN {OldNew(curr.version, look3.val)} ELSE {}]
      c4 == IF drift
            THEN [c3 EXCEPT !.version = {OldNew(curr.version, look3.val)}]
            ELSE c3
      calls4 == ex.calls \o
                (IF spec_changed \/ drift
                 THEN <<LookupCall(d.name, d.version_spec)>> ELSE <<>>)
  IN
  IF (spec_changed \/ drift) /\ look3.exc # ""
  THEN CheckFailed(look3.exc, calls4)
  ELSE CheckUpgrade(d, c4,
                    RequiresInstall(python_changed, ex.misses, spec_changed,
                                    drift),
                    calls4,
                    tool_is_outdated(tools, idx, d.name,
                                     IF d.version_spec # None
                                     THEN d.version_spec ELSE SpecFalse))

\* l.109-147: the extras loop has run with outcome ex.
CheckExtras(curr, d, idx, tools, python_changed, ex) ==
  IF ex.exc # "" THEN CheckFailed(ex.exc, ex.calls)
  ELSE CheckVersion(curr, d, idx, tools, python_changed, ex,
                    curr.install_spec # d.version_spec,
                    /\ d.version_spec # None
                    /\ curr.install_spec = d.version_spec
                    /\ ~Contains(curr.version, d.version_spec),
                    get_latest_version(idx, d.name, d.version_spec))

\* _check_changes(curr) of installed(): the Diff, the requires_install flag
\* and the calls made, or the exception a lookup raised.  d is the
\* DesiredSpec with the scope as resolved at l.180-181; tools is the
\* external state uv.tool_is_outdated reads.
CheckChanges(curr, d, idx, tools) ==
  CheckExtras(curr, d, idx, tools, PythonChanged(curr, d.python),
              ExtraMisses(curr, idx, d.extras, d.upgrade, {}, <<>>))

\* ------------------------------------------------ the external uv tool
\* A requirement string "<pkg><spec>" as uv parses it.
ReqPkg(req) == Head(req)
ReqSpec(req) == Tail(req)

\* The newest of the releases that satisfy a requirement ({}: none).
Newest(ok) == IF ok = {} THEN {} ELSE {VersionMax(ok)}

\* What uv resolves a requirement to: the newest stable release that
\* satisfies it ({} when there is none and the command fails).
UvResolve(idx, pkg, spec) ==
  Newest({v \in idx[pkg] :
            IsStableRelease(v) /\ (spec = None \/ Contains(v, spec))})

\* The tool environment uv builds once the requirement req resolved to ver
\* and each --with requirement r to wver[r].
UvInstallResolved(tools, call, req, withs, ver, wver) ==
  IF ver = {} \/ \E r \in withs : wver[r] = {}
  THEN Raise("CommandExecutionError")
  ELSE Ok((tools \ tool_list(tools, ReqPkg(req))) \cup
          {[tool |-> ReqPkg(req),
            python |-> IF call.kw.python # PyNone
                       THEN Resolve(call.kw.python) ELSE DefaultPython,
            install_spec |-> ReqSpec(req),
            version |-> CHOOSE x \in ver : TRUE,
            pkgs |-> [p \in {ReqPkg(req)} \cup {ReqPkg(r) : r \in withs} |->
                        IF p = ReqPkg(req) THEN CHOOSE x \in ver : TRUE
                        ELSE CHOOSE x \in
                               wver[CHOOSE r \in withs : ReqPkg(r) = p] :
                               TRUE]]})

\* uv installs the requirement req with the --with requirements withs; an
\* installed tool is left alone unless --reinstall or --force is given.
UvInstallReq(tools, idx, call, req, withs) ==
  IF /\ tool_list(tools, ReqPkg(req)) # {}
     /\ call.kw.reinstall # "True" /\ call.kw.force # "True"
  THEN Ok(tools)
  ELSE UvInstallResolved(tools, call, req, withs,
                         UvResolve(idx, ReqPkg(req), ReqSpec(req)),
                         [r \in withs |->
                            UvResolve(idx, ReqPkg(r), ReqSpec(r))])

\* `uv tool install [--with <extra>]... [--python <python>] [--reinstall]
\* <name>` (uv.py:423-452, 658-675): the tool environment is built from the
\* requirement given as <name> and the --with requirements.
UvToolInstall(tools, idx, call) ==
  UvInstallReq(tools, idx, call, <<call.name>>,
               {call.kw.extras[i] : i \in 1..Len(call.kw.extras)})

\* The tool cur upgraded to the newest release ver its specifier allows.
UvUpgraded(call, cur, ver) ==
  [cur EXCEPT
     !.python = IF call.kw.python # PyNone THEN Resolve(call.kw.python)
                ELSE @,
     !.version = IF ver # {} /\ VersionLess(@, CHOOSE x \in ver : TRUE)
                 THEN CHOOSE x \in ver : TRUE ELSE @,
     !.pkgs = [p \in DOMAIN @ |->
                 IF /\ p = call.name /\ ver # {}
                    /\ VersionLess(@[p], CHOOSE x \in ver : TRUE)
                 THEN CHOOSE x \in ver : TRUE ELSE @[p]]]

UvUpgradeOf(tools, idx, call, cur) ==
  Ok((tools \ tool_list(tools, call.name)) \cup
     {UvUpgraded(call, cur, UvResolve(idx, call.name, cur.install_spec))})

\* `uv tool upgrade [--python <python>] [--upgrade] <name>` (uv.py:581-618):
\* upgrades within the specifier the tool was installed with.
UvToolUpgrade(tools, idx, call) ==
  IF tool_list(tools, call.name) = {} THEN Raise("CommandExecutionError")
  ELSE UvUpgradeOf(tools, idx, call,
                   CHOOSE t \in tool_list(tools, call.name) : TRUE)

\* `uv tool uninstall <name>` (uv.py:530-554)
UvToolRemove(tools, call) ==
  IF tool_list(tools, call.name) = {} THEN Raise("CommandExecutionError")
  ELSE Ok(tools \ tool_list(tools, call.name))

\* What an action command does to the external state: its documented
\* effect, or (effect = "noop") nothing although it exits 0.
UvEffect(tools, idx, call, effect) ==
  IF effect = "noop" THEN Ok(tools)
  ELSE IF call.fn = "uv.tool_install" THEN UvToolInstall(tools, idx, call)
  ELSE IF call.fn = "uv.tool_upgrade" THEN UvToolUpgrade(tools, idx, call)
  ELSE UvToolRemove(tools, call)

\* ------------------------------------------------------- installed()
\* Mutant: the scope is passed on as it was given.
ResolveSystem_given(system, user, uid) == system

\* l.180-181 (and l.357-358): the scope is system-wide if nothing was asked
\* for and the caller is root.
ResolveSystem(system, user, uid) ==
  IF system = "None" /\ user = "None" /\ uid = 0 THEN "True" ELSE system

\* Python truthiness of the system argument.
Truthy(system) == system = "True"

\* _uv_tool (uv.py:205-213): the tool directory a uv tool command given
\* system= and user= works on, the system-wide one or the user's own.
UvToolScope(system, user, uid) ==
  IF Truthy(ResolveSystem(system, user, uid)) THEN <<"system">>
  ELSE <<"user", user>>

ScopeWords(d) ==
  IF Truthy(d.system) THEN <<"globally">> ELSE <<"for user ", d.user>>

\* "".join(next(iter(extra.items()))) for a dict, the string itself else.
FlattenExtras(extras) ==
  [i \in 1..Len(extras) |-> <<extras[i].pkg>> \o extras[i].spec]

\* Mutant: --reinstall is always passed.
Reinstall_always(curr) == "True"

\* l.214: "reinstall": bool(curr)
Reinstall(curr) == B(curr # {})

\* Mutants: the command is chosen regardless of the flag.
ActionCmd_upgrade(requires_install) == "upgrade"

ActionCmd_install(requires_install) == "install"

\* l.208-226: the command chosen by the flag.
ActionCmd(requires_install) ==
  IF requires_install THEN "install" ELSE "upgrade"

\* cmd_kwargs of the action call (l.200-227).
ActionCall(d, curr, requires_install) ==
  LET base == [NoKw EXCEPT !.python = d.python, !.system = d.system,
                           !.user = d.user]
  IN
  IF ActionCmd(requires_install) = "install"
  THEN Call("uv.tool_install", d.name,
            [base EXCEPT !.refresh = B(d.refresh),
                         !.reinstall = Reinstall(curr),
                         !.force = B(d.force),
                         !.extras = FlattenExtras(d.extras)])
  ELSE Call("uv.tool_upgrade", d.name,
            [base EXCEPT !.upgrade = B(d.upgrade)])

ListCall(d) ==
  Call("uv.tool_list", d.name,
       [NoKw EXCEPT !.system = d.system, !.user = d.user])

\* Mutants: the dry-run flag is ignored; every run is a dry run.
DryRun_never(test) == FALSE

DryRun_always(test) == TRUE

\* l.191, l.363: if __opts__["test"]
DryRun(test) == test

\* Mutant: the post-action verification is skipped.
Verified_always(new, new_changes) == TRUE

\* l.231-239: the post-action verification passes.
Verified(new, new_changes) == new # {} /\ new_changes = NoChanges

\* The result record (ret) and what became of the invocation.
Ret(name, result, comment, changes) ==
  [name |-> name, result |-> result, comment |-> comment,
   changes |-> changes]

NoRet == Ret("-", "-", <<>>, NoChanges)

\* The locals of installed() when it returns; cmd_failed is the position in
\* calls of the call whose uv command exited non-zero (0: none did).
NoFrame ==
  [curr |-> {}, changes |-> NoChanges, requires_install |-> FALSE,
   checked |-> FALSE, acted |-> FALSE, reobserved |-> FALSE, new |-> {},
   new_changes |-> NoChanges, cmd_failed |-> 0]

\* The text of the error _uv raises for a non-zero exit (uv.py:186-189) and
\* for keyword arguments it does not know (uv.py:156-159).
FailedRunning == <<"Failed running">>
InvalidKwargsText == <<"The following keyword arguments are invalid">>

\* kwarg.startswith("__")
StartsWithDunder(kwarg) ==
  Len(kwarg) >= 2 /\ kwarg[1] = "_" /\ kwarg[2] = "_"

\* uv.py:155: kwargs and not all(kwarg.startswith("__") for kwarg in kwargs)
InvalidKwargs(kwargs) ==
  kwargs # {} /\ ~(\A kwarg \in kwargs : StartsWithDunder(kwarg))

\* The uv tool list command run by uv.tool_is_outdated (uv.py:338), the
\* last call of _check_changes, exits non-zero.
OutdatedFault(fault, chk_calls) ==
  /\ fault = "outdated"
  /\ chk_calls # <<>>
  /\ chk_calls[Len(chk_calls)].fn = "uv.tool_is_outdated"

Outcome(ret, raised, calls, tools, frame) ==
  [ret |-> ret, raised |-> raised, calls |-> calls, tools |-> tools,
   frame |-> frame]

\* Mutants: the except clause catches nothing; only command failures.
Caught_none(exc) == FALSE

Caught_command(exc) == exc = "CommandExecutionError"

\* except (CommandExecutionError, SaltInvocationError) as err (l.244-246,
\* l.379-381): any other exception leaves the function.
Caught(exc) == exc \in {"CommandExecutionError", "SaltInvocationError"}

\* Mutant: a failed result reports the Diff computed so far.
Failed_reporting(name, exc, msg, calls, tools, frame) ==
  IF Caught(exc)
  THEN Outcome(Ret(name, "False", msg, frame.changes), "", calls, tools,
               frame)
  ELSE Outcome(NoRet, exc, calls, tools, frame)

Failed(name, exc, msg, calls, tools, frame) ==
  IF Caught(exc)
  THEN Outcome(Ret(name, "False", msg, NoChanges), "", calls, tools, frame)
  ELSE Outcome(NoRet, exc, calls, tools, frame)

\* The comment of a run that changed (or would change) something.
InstalledComment(how, curr, d) ==
  <<how>> \o (IF curr # {} THEN <<"re">> ELSE <<>>) \o <<"installed ">>
    \o ScopeWords(d)

\* l.236-243: the Diff of the new observation (outcome: nchk) decides.
InstalledVerify(d, curr, changes, calls3, f3, tools1, new, nchk) ==
  IF nchk.exc # "" THEN
    Failed(d.name, nchk.exc, <<nchk.exc>>, calls3 \o nchk.calls, tools1, f3)
  ELSE IF ~Verified(new, nchk.changes) THEN
    Failed(d.name, "CommandExecutionError",
           <<"Installation succeeded, but there are still pending changes">>,
           calls3 \o nchk.calls, tools1,
           [f3 EXCEPT !.new_changes = nchk.changes])
  ELSE
    Outcome(Ret(d.name, "True",
                InstalledComment("The tool has been ", curr, d), changes),
            "", calls3 \o nchk.calls, tools1,
            [f3 EXCEPT !.new_changes = nchk.changes])

\* l.230-235: the tool is listed again (new) in the external state tools1
\* the action left.
InstalledReobserve(d, idx, curr, changes, calls3, f3, tools1, new) ==
  IF new = {} THEN
    Failed(d.name, "CommandExecutionError",
           <<"There were no errors during installation, but '", d.name,
             "' is still not installed">>, calls3, tools1, f3)
  ELSE InstalledVerify(d, curr, changes, calls3, f3, tools1, new,
                       CheckChanges(CHOOSE t \in new : TRUE, d, idx, tools1))

\* l.229-230: the action command has run with outcome done.
InstalledAct(d, tools, idx, fault, curr, changes, calls2, f1, done) ==
  IF fault = "action" \/ done.exc # "" THEN
    Failed(d.name, "CommandExecutionError", FailedRunning, calls2,
           tools, [f1 EXCEPT !.cmd_failed = Len(calls2)])
  ELSE IF fault = "reobserve" THEN
    Failed(d.name, "CommandExecutionError", FailedRunning,
           calls2 \o <<ListCall(d)>>, done.val,
           [f1 EXCEPT !.acted = TRUE, !.cmd_failed = Len(calls2) + 1])
  ELSE
    InstalledReobserve(d, idx, curr, changes, calls2 \o <<ListCall(d)>>,
                       [f1 EXCEPT !.acted = TRUE, !.reobserved = TRUE,
                                  !.new = tool_list(done.val, d.name)],
                       done.val, tool_list(done.val, d.name))

\* l.189-229: the Diff has been computed (outcome: chk); action is the
\* call l.200-229 would make.
InstalledDecide(d, test, tools, idx, fault, effect, curr, chk, calls1, f1, action) ==
  IF OutdatedFault(fault, chk.calls) THEN
    Failed(d.name, "CommandExecutionError", FailedRunning, calls1, tools,
           [NoFrame EXCEPT !.curr = curr, !.cmd_failed = Len(calls1)])
  ELSE IF chk.exc # "" THEN
    Failed(d.name, chk.exc, <<chk.exc>>, calls1, tools,
           [NoFrame EXCEPT !.curr = curr])
  ELSE IF chk.changes = NoChanges THEN
    Outcome(Ret(d.name, "True", <<"The tool is installed as specified">>,
                NoChanges), "", calls1, tools, f1)
  ELSE IF DryRun(test) THEN
    Outcome(Ret(d.name, "None",
                InstalledComment("The tool would have been ", curr, d),
                chk.changes), "", calls1, tools, f1)
  ELSE
    InstalledAct(d, tools, idx, fault, curr, chk.changes,
                 calls1 \o <<action>>, f1,
                 UvEffect(tools, idx, action, effect))

\* l.184-188: the Diff of the observation curr, or the Diff of a tool that
\* is not installed.
InstalledCheck(d, test, tools, idx, fault, effect, curr, chk) ==
  InstalledDecide(d, test, tools, idx, fault, effect, curr, chk,
                  <<ListCall(d)>> \o chk.calls,
                  [NoFrame EXCEPT !.curr = curr, !.changes = chk.changes,
                                  !.requires_install = chk.requires_install,
                                  !.checked = TRUE],
                  ActionCall(d, curr, chk.requires_install))

\* l.182-188: the tool has been listed (curr).
InstalledObserve(d, test, tools, idx, fault, effect, curr) ==
  IF InvalidKwargs(d.kwargs) THEN
    Failed(d.name, "SaltInvocationError", InvalidKwargsText,
           <<ListCall(d)>>, tools, NoFrame)
  ELSE IF fault = "observe" THEN
    Failed(d.name, "CommandExecutionError", FailedRunning,
           <<ListCall(d)>>, tools, [NoFrame EXCEPT !.cmd_failed = 1])
  ELSE
    InstalledCheck(d, test, tools, idx, fault, effect, curr,
                   IF curr # {}
                   THEN CheckChanges(CHOOSE t \in curr : TRUE, d, idx, tools)
                   ELSE [exc |-> "",
                         changes |-> [NoChanges EXCEPT
                                        !.installed = {d.name}],
                         requires_install |-> TRUE, calls |-> <<>>])

\* installed() with the scope resolved (l.180-181).
InstalledScoped(d, test, tools, idx, fault, effect) ==
  InstalledObserve(d, test, tools, idx, fault, effect,
                   tool_list(tools, d.name))

\* installed(name, version_spec, upgrade, extras, refresh, force, python,
\* system, user) under __opts__["test"] = test, called by uid, with the
\* external state tools and the index idx.  fault names the uv command that
\* exits non-zero (if it is run), effect what the action command does.
InstalledRun(d0, test, uid, tools, idx, fault, effect) ==
  InstalledScoped([d0 EXCEPT !.system = ResolveSystem(d0.system, d0.user, uid)],
                  test, tools, idx, fault, effect)

\* --------------------------------------------------------- absent()
IsInstalledCall(d) ==
  Call("uv.tool_is_installed", d.name,
       [NoKw EXCEPT !.system = d.system, !.user = d.user])

RemoveCall(d) ==
  Call("uv.tool_remove", d.name,
       [NoKw EXCEPT !.system = d.system, !.user = d.user])

\* {"removed": name}
Removed(name) == [NoChanges EXCEPT !.removed = {name}]

\* Mutant: the tool is never reported as installed.
tool_is_installed_never(tools, name) == FALSE

\* uv.tool_is_installed(name, **kwargs) (uv.py:241)
tool_is_installed(tools, name) == tool_list(tools, name) # {}

\* l.370-378: uv.tool_remove has run with outcome done.
AbsentAct(d, tools, fault, f1, done) ==
  IF fault = "action" \/ done.exc # "" THEN
    Failed(d.name, "CommandExecutionError", FailedRunning,
           <<IsInstalledCall(d), RemoveCall(d)>>, tools,
           [f1 EXCEPT !.cmd_failed = 2])
  ELSE IF fault = "reobserve" THEN
    Failed(d.name, "CommandExecutionError", FailedRunning,
           <<IsInstalledCall(d), RemoveCall(d), IsInstalledCall(d)>>,
           done.val, [f1 EXCEPT !.acted = TRUE, !.cmd_failed = 3])
  ELSE IF tool_is_installed(done.val, d.name) THEN
    Failed(d.name, "CommandExecutionError",
           <<"There were no errors during uninstallation, but the tool is still reported as installed">>,
           <<IsInstalledCall(d), RemoveCall(d), IsInstalledCall(d)>>,
           done.val,
           [f1 EXCEPT !.acted = TRUE, !.reobserved = TRUE,
                      !.new = tool_list(done.val, d.name)])
  ELSE
    Outcome(Ret(d.name, "True",
                <<"The tool has been removed ">> \o ScopeWords(d),
                Removed(d.name)), "",
            <<IsInstalledCall(d), RemoveCall(d), IsInstalledCall(d)>>,
            done.val,
            [f1 EXCEPT !.acted = TRUE, !.reobserved = TRUE,
                       !.new = tool_list(done.val, d.name)])

\* absent() with the scope resolved (l.357-358).
AbsentScoped(d, test, tools, fault, effect) ==
  IF InvalidKwargs(d.kwargs) THEN
    Failed(d.name, "SaltInvocationError", InvalidKwargsText,
           <<IsInstalledCall(d)>>, tools, NoFrame)
  ELSE IF fault = "observe" THEN
    Failed(d.name, "CommandExecutionError", FailedRunning,
           <<IsInstalledCall(d)>>, tools, [NoFrame EXCEPT !.cmd_failed = 1])
  ELSE IF ~tool_is_installed(tools, d.name) THEN
    Outcome(Ret(d.name, "True", <<"The tool is already absent">>, NoChanges),
            "", <<IsInstalledCall(d)>>, tools,
            [NoFrame EXCEPT !.curr = tool_list(tools, d.name),
                            !.checked = TRUE])
  ELSE IF DryRun(test) THEN
    Outcome(Ret(d.name, "None",
                <<"The tool would have been removed ">> \o ScopeWords(d),
                Removed(d.name)), "", <<IsInstalledCall(d)>>, tools,
            [NoFrame EXCEPT !.curr = tool_list(tools, d.name),
                            !.checked = TRUE])
  ELSE
    AbsentAct(d, tools, fault,
              [NoFrame EXCEPT !.curr = tool_list(tools, d.name),
                              !.checked = TRUE],
              UvEffect(tools, <<>>, RemoveCall(d), effect))

\* absent(name, system, user)
AbsentRun(d0, test, uid, tools, fault, effect) ==
  AbsentScoped([d0 EXCEPT !.system = ResolveSystem(d0.system, d0.user, uid)],
               test, tools, fault, effect)

\* ------------------------------------------------------ state machine
VARIABLES
  tools,    \* the tools uv has installed in the targeted scope
  index,    \* the package index: the releases of each package
  desired,  \* the DesiredSpec of the state declaration
  test,     \* __opts__["test"]
  uid,      \* os.getuid()
  op,       \* the state function called last
  ret,      \* the result record it returned
  raised,   \* the exception that left it instead ("": none)
  calls,    \* the __salt__ calls it made, in order
  frame,    \* its locals when it returned
  ncalls    \* invocations so far

vars == <<tools, index, desired, test, uid, op, ret, raised, calls, frame,
          ncalls>>

\* What the uv commands of one invocation do: every command works ("ok"),
\* the action command exits 0 without effect ("noop"), or the named
\* command exits non-zero.
Faults == {"none", "observe", "outdated", "action", "reobserve"}
Outcomes == {<<"none", "ok">>, <<"none", "noop">>, <<"observe", "ok">>,
             <<"outdated", "ok">>, <<"action", "ok">>, <<"reobserve", "ok">>}

\* extras: a list whose items are a package name or {name: specifier}.
ExtrasChoices ==
  {<<>>, <<[pkg |-> ExtraName, spec |-> None]>>,
   <<[pkg |-> ExtraName, spec |-> LT11]>>}

\* (system, user, uid) of an invocation.
DefaultScope == <<"None", "None", 0>>
ScopeChoices ==
  {DefaultScope, <<"None", "alice", 0>>, <<"None", "None", 1000>>,
   <<"True", "None", 1000>>, <<"False", "None", 0>>}

\* **kwargs: nothing, a name Salt injects, a name uv does not know.
KwPubFun == <<"_", "_", "p", "u", "b", "_", "f", "u", "n">>
KwBogus == <<"b", "o", "g", "u", "s">>
KwargsChoices == {{}, {KwPubFun}, {KwBogus}}

DesiredSpecs ==
  {[name |-> ToolName, version_spec |-> vs, upgrade |-> up, extras |-> ex,
    refresh |-> FALSE, force |-> FALSE, python |-> py,
    system |-> sc[1], user |-> sc[2], kwargs |-> kw] :
     vs \in VersionSpecs, up \in BOOLEAN, ex \in ExtrasChoices,
     py \in {PyNone, PySymlink}, sc \in ScopeChoices,
     kw \in KwargsChoices}

\* pip list of the tool environment: the tool itself and maybe the extra.
PkgsChoices(v) ==
  {[p \in {ToolName} |-> v]} \cup
  {[p \in Packages |-> IF p = ToolName THEN v ELSE ev] : ev \in {V9, V11}}

\* The ObservedStates uv can report for the tool.
ObservedStates ==
  UNION {{[tool |-> ToolName, python |-> py, install_spec |-> is,
           version |-> v, pkgs |-> pk] :
            py \in {Py312, Py311}, is \in VersionSpecs,
            pk \in PkgsChoices(v)} : v \in VersionStrings}

\* The releases of the tool: published so far (9, then 10, then 11), or
\* with the old ones deleted.  The extra package has all three.
ToolReleases == {{V9}, {V9, V10}, {V9, V10, V11}, {V11}}

Indexes ==
  {[p \in Packages |-> IF p = ToolName THEN rs ELSE VersionStrings] :
     rs \in ToolReleases}

\* The initial states vary the dimensions of the input in groups: the
\* index and the recorded install specifier, the extras, the scope.
ExtrasVaried ==
  desired.extras # <<>> \/ \E t \in tools : ExtraName \in DOMAIN t.pkgs
VersionVaried ==
  \/ index[ToolName] # VersionStrings
  \/ \E t \in tools : t.install_spec # desired.version_spec
PythonVaried ==
  \/ \E t \in tools : t.python # DefaultPython
  \/ tools = {} /\ desired.python # PyNone
ScopeVaried == <<desired.system, desired.user, uid>> # DefaultScope
KwargsVaried == desired.kwargs # {}

Init ==
  /\ tools \in {{}} \cup {{t} : t \in ObservedStates}
  /\ index \in Indexes
  /\ desired \in DesiredSpecs
  /\ uid \in {0, 1000}
  /\ <<desired.system, desired.user, uid>> \in ScopeChoices
  /\ ~(ExtrasVaried /\ VersionVaried)
  /\ ScopeVaried => ~(ExtrasVaried \/ VersionVaried \/ PythonVaried)
  /\ KwargsVaried =>
       ~(ExtrasVaried \/ VersionVaried \/ PythonVaried \/ ScopeVaried)
  /\ test \in BOOLEAN
  /\ op = "none"
  /\ ret = NoRet
  /\ raised = ""
  /\ calls = <<>>
  /\ frame = NoFrame
  /\ ncalls = 0

Return(name, r) ==
  /\ op' = name
  /\ ret' = r.ret
  /\ raised' = r.raised
  /\ calls' = r.calls
  /\ frame' = r.frame
  /\ tools' = r.tools
  /\ ncalls' = ncalls + 1
  /\ UNCHANGED <<index, desired, test, uid>>

\* uv_tool.installed
Installed ==
  /\ ncalls < MaxCalls
  /\ \E o \in Outcomes :
       Return("installed",
              InstalledRun(desired, test, uid, tools, index, o[1], o[2]))

\* uv_tool.latest: installed with upgrade=True (refresh and refresh_package
\* at their defaults).
Latest ==
  /\ ncalls < MaxCalls
  /\ \E o \in Outcomes :
       Return("latest",
              InstalledRun([desired EXCEPT !.upgrade = TRUE, !.refresh = FALSE],
                           test, uid, tools, index, o[1], o[2]))

\* uv_tool.absent
Absent ==
  /\ ncalls < MaxCalls
  /\ \E o \in Outcomes :
       Return("absent", AbsentRun(desired, test, uid, tools, o[1], o[2]))

Next == Installed \/ Latest \/ Absent

Spec == Init /\ [][Next]_vars

\* ===================================================== the claims
IsInstalledOp == op \in {"installed", "latest"}

\* The DesiredSpec the last invocation was given, and with its scope as
\* resolved at the start of the function.
GivenDesired ==
  IF op = "latest" THEN [desired EXCEPT !.upgrade = TRUE] ELSE desired

EffDesired ==
  [GivenDesired EXCEPT
     !.system = ResolveSystem(desired.system, desired.user, uid)]

ActionFns == {"uv.tool_install", "uv.tool_upgrade", "uv.tool_remove"}
ActionIdx == {i \in DOMAIN calls : calls[i].fn \in ActionFns}

TheCurr == CHOOSE t \in frame.curr : TRUE

FreshInstallDiff == [NoChanges EXCEPT !.installed = {desired.name}]

\* The Diff of an ObservedState (a set: {} when the tool is absent) against
\* the DesiredSpec of the last invocation, in the present external state.
DiffOf(obs) ==
  IF obs = {} THEN [exc |-> "", changes |-> FreshInstallDiff]
  ELSE CheckChanges(CHOOSE t \in obs : TRUE, EffDesired, index, tools)

LastObserved == IF frame.reobserved THEN frame.new ELSE frame.curr

\* C1: in installed(), once the install/upgrade action has returned without
\* error the tool is listed again for the same name and scope; if the tool
\* is then absent or its Diff against the same DesiredSpec is non-empty the
\* result is False; and result=True is returned only if the Diff of the
\* most recent observation is empty.
C1_VerifiedAfterAction ==
  IsInstalledOp =>
    /\ frame.acted =>
         \E i \in ActionIdx :
            /\ i + 1 <= Len(calls)
            /\ calls[i + 1] = ListCall(EffDesired)
            /\ calls[1] = ListCall(EffDesired)
    /\ ( /\ frame.reobserved
         /\ \/ frame.new = {}
            \/ DiffOf(frame.new).exc = ""
               /\ DiffOf(frame.new).changes # NoChanges )
       => ret.result = "False"
    /\ ret.result = "True" =>
         /\ LastObserved # {}
         /\ DiffOf(LastObserved).exc = ""
         /\ DiffOf(LastObserved).changes = NoChanges

\* The action ran, the tool was listed again and still differs.
C1_Witness ==
  /\ IsInstalledOp
  /\ frame.reobserved
  /\ frame.new # {}
  /\ frame.new_changes # NoChanges
  /\ ret.result = "False"

\* C2: with __opts__["test"] true no state function calls uv.tool_install,
\* uv.tool_upgrade or uv.tool_remove; installed()/latest() with a non-empty
\* Diff return result None with exactly that Diff as changes, absent() with
\* the tool installed returns None with {removed: name}.
C2_DryRunNoAction ==
  test =>
    /\ ActionIdx = {}
    /\ (IsInstalledOp /\ frame.checked /\ DiffOf(frame.curr).changes # NoChanges)
       => ret.result = "None" /\ ret.changes = DiffOf(frame.curr).changes
    /\ (op = "absent" /\ frame.checked /\ frame.curr # {})
       => ret.result = "None" /\ ret.changes = Removed(desired.name)

\* A dry run of latest() that reports a pending version change.
C2_Witness ==
  /\ test
  /\ op = "latest"
  /\ ret.result = "None"
  /\ ret.changes.version # {}

\* The stable releases of a package that satisfy a specifier.
Satisfying(idx, pkg, spec) ==
  {v \in idx[pkg] : IsStableRelease(v) /\ (spec = None \/ Contains(v, spec))}

\* No satisfying release of the index is newer than v.
NoNewer(idx, pkg, spec, v) ==
  \A r \in Satisfying(idx, pkg, spec) : ~VersionLess(v, r)

\* DesiredSpec d and ObservedState t agree in every compared dimension.
Agree(d, t, idx) ==
  /\ d.python = PyNone \/ t.python = Resolve(d.python)
  /\ \A i \in DOMAIN d.extras :
       /\ d.extras[i].pkg \in DOMAIN t.pkgs
       /\ d.extras[i].spec = None
          \/ Contains(t.pkgs[d.extras[i].pkg], d.extras[i].spec)
       /\ d.upgrade =>
            NoNewer(idx, d.extras[i].pkg, d.extras[i].spec,
                    t.pkgs[d.extras[i].pkg])
  /\ t.install_spec = d.version_spec
  /\ d.version_spec = None \/ Contains(t.version, d.version_spec)
  /\ d.upgrade => NoNewer(idx, d.name, d.version_spec, t.version)

\* With upgrade set, every declared specifier has a release in the index.
Resolvable(d, idx) ==
  d.upgrade =>
    /\ Satisfying(idx, d.name, d.version_spec) # {}
    /\ \A i \in DOMAIN d.extras :
         Satisfying(idx, d.extras[i].pkg, d.extras[i].spec) # {}

Unchanged ==
  /\ raised = ""
  /\ ret.result = "True"
  /\ ret.changes = NoChanges
  /\ ActionIdx = {}

\* The same call made again in the present state issues no action.
NoSecondAction ==
  \A o \in Outcomes :
     LET again == InstalledRun(GivenDesired, test, uid, tools, index,
                               o[1], o[2])
     IN \A i \in DOMAIN again.calls : again.calls[i].fn \notin ActionFns

\* C3 as stated: whenever DesiredSpec and ObservedState agree in every
\* compared dimension, installed() (no uv command of which fails) returns
\* result True with empty changes and calls no action.
C3_Original ==
  ( /\ IsInstalledOp /\ frame.curr # {} /\ frame.cmd_failed = 0
    /\ Agree(EffDesired, TheCurr, index) )
  => Unchanged

\* C3 (amended): whenever DesiredSpec and ObservedState agree in every
\* compared dimension and, with upgrade set, the index has a stable release
\* for every declared specifier, installed() (no uv command of which fails)
\* computes an empty Diff, calls no action and returns result True with
\* empty changes; and the same call made again after a call that returned
\* True issues no action.
C3_Idempotent ==
  /\ ( /\ IsInstalledOp
       /\ frame.curr # {} /\ frame.cmd_failed = 0
       /\ Agree(EffDesired, TheCurr, index)
       /\ Resolvable(EffDesired, index) )
     => Unchanged /\ DiffOf(frame.curr).changes = NoChanges
  /\ (IsInstalledOp /\ ret.result = "True") => NoSecondAction

\* latest() on a tool with a declared extra, everything already newest.
C3_Witness ==
  /\ op = "latest"
  /\ frame.curr # {}
  /\ desired.extras # <<>>
  /\ Agree(EffDesired, TheCurr, index)
  /\ Resolvable(EffDesired, index)
  /\ ret.result = "True"

\* C4: when uv.tool_list reports no ObservedState the Diff is exactly
\* {installed: name}, requires_install is true, no version lookup precedes
\* the action, and the action is uv.tool_install, never uv.tool_upgrade.
C4_AbsentToolInstalls ==
  (IsInstalledOp /\ frame.checked /\ frame.curr = {}) =>
    /\ frame.changes = FreshInstallDiff
    /\ frame.requires_install
    /\ test => Len(calls) = 1
    /\ ~test => Len(calls) >= 2 /\ calls[2].fn = "uv.tool_install"
    /\ \A i \in DOMAIN calls : calls[i].fn # "uv.tool_upgrade"

\* A fresh install that was carried out and verified.
C4_Witness ==
  /\ IsInstalledOp
  /\ frame.checked
  /\ frame.curr = {}
  /\ frame.acted
  /\ ret.result = "True"

\* The first observation found the tool and the Diff was computed.
Diffed == IsInstalledOp /\ frame.checked /\ frame.curr # {}

PythonMismatch ==
  /\ EffDesired.python # PyNone
  /\ TheCurr.python # Resolve(EffDesired.python)

\* C5 as stated: a declared interpreter that differs from the observed one
\* is recorded in the Diff and sets the reinstall flag, so that the action
\* is a full install, also when it is the only mismatch.
C5_Original ==
  (Diffed /\ PythonMismatch) =>
    /\ frame.changes.python # {}
    /\ frame.requires_install
    /\ \A i \in ActionIdx : calls[i].fn = "uv.tool_install"

\* C5 (amended): a declared interpreter that differs from the observed one
\* is recorded in the Diff but does not set the reinstall flag: the flag is
\* true only if an extras miss, a changed version specifier or a version
\* outside the specifier is found as well, and an interpreter change that is
\* the only mismatch is dispatched to uv.tool_upgrade, with the declared
\* python passed to it.
C5_InterpreterChange ==
  (Diffed /\ PythonMismatch) =>
    /\ frame.changes.python = {OldNew(TheCurr.python, EffDesired.python)}
    /\ frame.requires_install <=>
         \/ frame.changes.extras # {}
         \/ TheCurr.install_spec # EffDesired.version_spec
         \/ /\ EffDesired.version_spec # None
            /\ ~Contains(TheCurr.version, EffDesired.version_spec)
    /\ \A i \in ActionIdx :
         /\ calls[i].kw.python = EffDesired.python
         /\ calls[i].fn = "uv.tool_install" <=> frame.requires_install
    /\ [frame.changes EXCEPT !.python = {}] = NoChanges =>
         /\ ~frame.requires_install
         /\ \A i \in ActionIdx : calls[i].fn = "uv.tool_upgrade"

\* An interpreter change alone, carried out by uv.tool_upgrade.
C5_Witness ==
  /\ Diffed
  /\ PythonMismatch
  /\ [frame.changes EXCEPT !.python = {}] = NoChanges
  /\ frame.acted
  /\ \E i \in ActionIdx : calls[i].fn = "uv.tool_upgrade"
  /\ ret.result = "True"

\* Interpreter, version specifier and the declared extras' specifiers are
\* satisfied by ObservedState t.
Satisfied(d, t) ==
  /\ d.python = PyNone \/ t.python = Resolve(d.python)
  /\ t.install_spec = d.version_spec
  /\ d.version_spec = None \/ Contains(t.version, d.version_spec)
  /\ \A i \in DOMAIN d.extras :
       /\ d.extras[i].pkg \in DOMAIN t.pkgs
       /\ d.extras[i].spec = None
          \/ Contains(t.pkgs[d.extras[i].pkg], d.extras[i].spec)

NoNewerExtra(d, t, idx) ==
  \A i \in DOMAIN d.extras :
     d.extras[i].pkg \in DOMAIN t.pkgs =>
       NoNewer(idx, d.extras[i].pkg, d.extras[i].spec, t.pkgs[d.extras[i].pkg])

VersionOnly(changes) == [changes EXCEPT !.version = {}] = NoChanges

TrueLatest(idx, pkg, spec) == VersionMax(Satisfying(idx, pkg, spec))

ExtraMissing(t, extra) == extra.pkg \notin DOMAIN t.pkgs
ExtraViolated(t, extra) ==
  /\ extra.pkg \in DOMAIN t.pkgs
  /\ extra.spec # None
  /\ ~Contains(t.pkgs[extra.pkg], extra.spec)

\* C7: every declared extra that is missing or whose installed version
\* violates its specifier has an extras entry {old, new} with new the
\* latest release satisfying the specifier, and sets the reinstall flag,
\* whatever the upgrade flag.
C7_ExtrasMismatch ==
  Diffed =>
    \A i \in DOMAIN EffDesired.extras :
       LET extra == EffDesired.extras[i] IN
       (ExtraMissing(TheCurr, extra) \/ ExtraViolated(TheCurr, extra)) =>
         /\ frame.requires_install
         /\ \E misses \in frame.changes.extras :
              \E m \in misses :
                 /\ m.pkg = extra.pkg
                 /\ m.old = IF ExtraMissing(TheCurr, extra) THEN None
                            ELSE TheCurr.pkgs[extra.pkg]
                 /\ VersionEq(m.new,
                              TrueLatest(index, extra.pkg, extra.spec))

\* C8: a declared version specifier that differs from the recorded one is
\* put in the Diff as version_spec {old: recorded, new: declared} and sets
\* the reinstall flag; a version entry {old: observed, new: latest} is there
\* iff the latest release satisfying the new specifier differs from the
\* observed version.
C8_SpecChange ==
  (Diffed /\ TheCurr.install_spec # EffDesired.version_spec) =>
    LET latest == TrueLatest(index, EffDesired.name, EffDesired.version_spec)
    IN
    /\ frame.changes.version_spec =
         {OldNew(TheCurr.install_spec, EffDesired.version_spec)}
    /\ frame.requires_install
    /\ frame.changes.version # {} <=> ~VersionEq(latest, TheCurr.version)
    /\ frame.changes.version # {} =>
         frame.changes.version = {OldNew(TheCurr.version, latest)}

\* C9: every action of installed() carries the declared version specifier:
\* uv.tool_install is given it (with the requirement or as an argument) and
\* the tool it installs has it recorded, with a version inside it;
\* uv.tool_upgrade runs on a tool recorded with it.
C9_ActionCarriesSpec ==
  IsInstalledOp =>
    /\ \A i \in ActionIdx :
         /\ calls[i].fn = "uv.tool_install" =>
              \/ ReqSpec(<<calls[i].name>>) = EffDesired.version_spec
              \/ calls[i].kw.spec = EffDesired.version_spec
         /\ calls[i].fn = "uv.tool_upgrade" =>
              TheCurr.install_spec = EffDesired.version_spec
    /\ (frame.reobserved /\ frame.new # {} /\ frame.new # frame.curr) =>
         \A t \in frame.new :
            /\ t.install_spec = EffDesired.version_spec
            /\ EffDesired.version_spec = None
               \/ Contains(t.version, EffDesired.version_spec)

\* C10 as stated: uv.tool_install is always called with reinstall true.
C10_Original ==
  IsInstalledOp =>
    \A i \in ActionIdx :
       calls[i].fn = "uv.tool_install" => calls[i].kw.reinstall = "True"

\* C10 (amended): uv.tool_install is called with reinstall true exactly
\* when the tool was observed as installed before the action, and with
\* reinstall false when it was not.
C10_ReinstallIffInstalled ==
  IsInstalledOp =>
    \A i \in ActionIdx :
       calls[i].fn = "uv.tool_install" =>
         calls[i].kw.reinstall = B(frame.curr # {})

\* A fresh install, issued with reinstall false.
C10_Witness ==
  /\ IsInstalledOp
  /\ frame.checked
  /\ frame.curr = {}
  /\ \E i \in ActionIdx :
        calls[i].fn = "uv.tool_install" /\ calls[i].kw.reinstall = "False"

\* Calls of the last invocation by function.
CallIdx(fns) == {i \in DOMAIN calls : calls[i].fn \in fns}

\* C11: absent() returns result=True only if its most recent observation
\* reports the tool as not installed; if the first check reports it as not
\* installed the result is True with empty changes and no executor is
\* called; otherwise, outside dry-run, exactly one uv.tool_remove is issued
\* for the scope of the check, the tool is checked again once the removal
\* returned, and the result is False if it is still reported installed.
C11_AbsentVerified ==
  op = "absent" =>
    /\ (ret.result = "True" => frame.checked /\ LastObserved = {})
    /\ (frame.checked /\ frame.curr = {} =>
          /\ ret.result = "True" /\ ret.changes = NoChanges
          /\ ActionIdx = {})
    /\ (frame.checked /\ frame.curr # {} /\ ~test =>
          /\ ActionIdx = {2}
          /\ calls[2].fn = "uv.tool_remove"
          /\ calls[2].name = calls[1].name
          /\ calls[2].kw.system = calls[1].kw.system
          /\ calls[2].kw.user = calls[1].kw.user
          /\ (frame.acted =>
                /\ Len(calls) = 3
                /\ calls[3] = calls[1]
                /\ calls[3].fn = "uv.tool_is_installed")
          /\ (frame.reobserved /\ frame.new # {} => ret.result = "False"))

\* absent() removed nothing although the removal exited 0: result False.
C11_Witness ==
  /\ op = "absent" /\ frame.acted /\ frame.reobserved /\ frame.new # {}
  /\ ret.result = "False" /\ ActionIdx = {2}

\* The execution-module functions that take the scope.
ScopedFns ==
  {"uv.tool_list", "uv.tool_is_outdated", "uv.tool_is_installed",
   "uv.tool_install", "uv.tool_upgrade", "uv.tool_remove"}

\* The scope rule: system scope iff system was given true, or neither
\* system nor user was given and the caller is the superuser.
SystemScopeDeclared ==
  \/ desired.system = "True"
  \/ desired.system = "None" /\ desired.user = "None" /\ uid = 0

\* C12: within one invocation of installed() or absent() every observer
\* call, version-outdated check, action call and post-action observation
\* receives the same (system, user) pair, the one decided before the first
\* observation: system is true iff system was given true or neither system
\* nor user was given and the caller is the superuser, user is as given;
\* and each of these calls works on the scope so decided.
C12_ScopeThreaded ==
  op # "none" =>
    /\ calls # <<>> /\ calls[1].fn \in ScopedFns
    /\ \A i \in CallIdx(ScopedFns) :
         /\ calls[i].kw.system = calls[1].kw.system
         /\ calls[i].kw.user = desired.user
         /\ Truthy(calls[i].kw.system) <=> SystemScopeDeclared
         /\ UvToolScope(calls[i].kw.system, calls[i].kw.user, uid) =
              IF SystemScopeDeclared THEN <<"system">>
              ELSE <<"user", desired.user>>

\* The superuser, no scope given: observation, outdated check, action and
\* re-observation all ran, with system decided true.
C12_Witness ==
  /\ IsInstalledOp /\ frame.reobserved
  /\ CallIdx({"uv.tool_is_outdated"}) # {} /\ ActionIdx # {}
  /\ desired.system = "None" /\ desired.user = "None" /\ uid = 0
  /\ \A i \in CallIdx(ScopedFns) : calls[i].kw.system = "True"

\* C13: if an observer or executor call of installed() or absent() fails
\* because its uv command exits non-zero, the operation returns a result
\* record with result=False and the error text as comment, nothing is
\* raised, and the failed call is the last call of the invocation.
C13_CommandFailureReported ==
  frame.cmd_failed # 0 =>
    /\ calls[frame.cmd_failed].fn \in ScopedFns
    /\ ret.result = "False" /\ ret.comment = FailedRunning
    /\ ret.name = desired.name
    /\ raised = ""
    /\ Len(calls) = frame.cmd_failed

\* The re-observation after a successful action failed.
C13_Witness ==
  /\ IsInstalledOp /\ frame.acted /\ ~frame.reobserved
  /\ frame.cmd_failed = Len(calls) /\ ActionIdx = {Len(calls) - 1}
  /\ ret.result = "False" /\ ret.comment = FailedRunning

\* The last invocation was given a keyword argument the execution layer
\* rejects.
Malformed == op # "none" /\ InvalidKwargs(desired.kwargs)

\* C14 as stated: an invocation error caused by malformed arguments is not
\* caught: it is raised to the caller and never becomes a result record.
C14_Original ==
  Malformed => raised = "SaltInvocationError" /\ ret = NoRet

\* C14: an invocation error caused by malformed arguments to installed() or
\* absent() (an unknown keyword argument, rejected by the execution layer
\* with SaltInvocationError at the first observer call) is caught by the
\* operation: nothing is raised, the result record has result=False, the
\* error text as comment and empty changes, and no further call is made.
\* Keyword arguments whose names start with "__" are not rejected.
C14_InvocationErrorCaught ==
  /\ Malformed =>
       /\ raised = ""
       /\ ret.result = "False" /\ ret.comment = InvalidKwargsText
       /\ ret.changes = NoChanges
       /\ Len(calls) = 1 /\ ActionIdx = {}
  /\ op # "none" /\ ~InvalidKwargs(desired.kwargs) =>
       ret.comment # InvalidKwargsText /\ raised # "SaltInvocationError"

C14_Witness ==
  /\ op = "installed" /\ desired.kwargs = {KwBogus}
  /\ ret.result = "False" /\ ret.comment = InvalidKwargsText
  /\ calls = <<ListCall(EffDesired)>>

\* The calls of the last invocation that looked up a version under a
\* constraint no stable release of the index satisfies (the uv tool list
\* command of the outdated check having worked).
FailingLookups ==
  {i \in DOMAIN calls :
     /\ \/ calls[i].fn = "uv.get_latest_version" /\ calls[i].kw.spec # None
        \/ /\ calls[i].fn = "uv.tool_is_outdated"
           /\ calls[i].kw.spec # SpecFalse
           /\ frame.cmd_failed # i
     /\ Candidates(index[calls[i].name], calls[i].kw.spec) = {}}

\* C15 as stated: the failed lookup leaves installed() as an invocation
\* error (SaltInvocationError, the error of C14), and no action executor is
\* called afterwards.
C15_Original ==
  \A i \in FailingLookups :
     /\ raised = "SaltInvocationError"
     /\ \A j \in ActionIdx : j < i

\* C15: when no stable release in the index satisfies the constraint passed
\* to the version resolver, the lookup raises StopIteration, which is none
\* of the errors installed() catches: it leaves installed() as a raised
\* error, no result record is returned (no fallback version, no successful
\* and no failed result), and the failed lookup is the last call of the
\* invocation, so no action executor is called after it.
C15_LookupFailurePropagates ==
  \A i \in FailingLookups :
     /\ IsInstalledOp
     /\ raised = "StopIteration"
     /\ ret = NoRet
     /\ i = Len(calls)
     /\ \A j \in ActionIdx : j < i

\* The first Diff needed a version no release provides: nothing returned,
\* no action called.
C15_Witness ==
  /\ IsInstalledOp /\ FailingLookups = {Len(calls)}
  /\ raised = "StopIteration" /\ ret = NoRet /\ ActionIdx = {}
  /\ frame.curr # {}

ListIdx == CallIdx({"uv.tool_list"})

\* C16: an invocation of installed() observes, then calls at most one
\* action executor, then observes: the first call is uv.tool_list; exactly
\* one action call is made when the initial Diff is non-empty and dry-run
\* is off (uv.tool_install if the reinstall flag is set, uv.tool_upgrade
\* otherwise), none otherwise; and the action call, if it returned without
\* error, is followed at once by exactly one uv.tool_list call, by none if
\* it failed.
C16_ObserveActObserve ==
  IsInstalledOp =>
    /\ calls # <<>> /\ calls[1].fn = "uv.tool_list"
    /\ Cardinality(ActionIdx) <= 1
    /\ IF frame.checked /\ frame.changes # NoChanges /\ ~test
       THEN /\ Cardinality(ActionIdx) = 1
            /\ \A a \in ActionIdx :
                 calls[a].fn = IF frame.requires_install
                               THEN "uv.tool_install" ELSE "uv.tool_upgrade"
       ELSE ActionIdx = {}
    /\ \A a \in ActionIdx :
         /\ \E l \in ListIdx : l < a
         /\ {l \in ListIdx : l > a} = IF frame.acted THEN {a + 1} ELSE {}
    /\ (ActionIdx = {} => ListIdx = {1})

\* An upgrade was dispatched and verified: list, outdated check, upgrade,
\* list, outdated check.
C16_Witness ==
  /\ IsInstalledOp /\ ret.result = "True" /\ frame.reobserved
  /\ ~frame.requires_install
  /\ \E a \in ActionIdx :
       /\ calls[a].fn = "uv.tool_upgrade"
       /\ ListIdx = {1, a + 1}
       /\ a + 1 < Len(calls)

\* The lookups of the last invocation with a constraint that some stable
\* release satisfies.
ResolvedLookups ==
  {i \in DOMAIN calls :
     /\ calls[i].fn = "uv.get_latest_version" /\ calls[i].kw.spec # None
     /\ Candidates(index[calls[i].name], calls[i].kw.spec) # {}}

\* C17: get_latest_version(name, spec) with a non-empty spec returns the
\* greatest version under version ordering (10 above 9) among the releases
\* of the index that satisfy spec and are not pre-, dev- or post-releases.
C17_LatestByVersion ==
  \A i \in ResolvedLookups :
     get_latest_version(index, calls[i].name, calls[i].kw.spec) =
       Ok(VersionMax(Candidates(index[calls[i].name], calls[i].kw.spec)))

\* C18: every result record of installed() or absent() with result=False
\* has empty changes, also when the action was executed and returned
\* without error but the post-action verification failed; changes is
\* non-empty only with result True after a performed action or with result
\* None in a dry run.
C18_FailuresReportNoChanges ==
  op # "none" =>
    /\ (ret.result = "False" => ret.changes = NoChanges)
    /\ (ret.changes # NoChanges =>
          \/ ret.result = "True" /\ frame.acted /\ ActionIdx # {}
          \/ ret.result = "None" /\ test /\ ActionIdx = {})

\* The action ran and changed the tool, the verification failed: result
\* False with empty changes.
C18_Witness ==
  /\ IsInstalledOp /\ ret.result = "False" /\ ret.changes = NoChanges
  /\ frame.acted /\ frame.reobserved
  /\ frame.changes # NoChanges /\ frame.new # frame.curr
  /\ frame.new_changes # NoChanges

====
